---- MODULE Spec2Model ----
(***************************************************************************)
(* Nexus Docker search client: the search aggregator (SearchImages,        *)
(* SearchAndFilterImages) and the tag filter (processImages, filterTags).  *)
(*                                                                         *)
(* Two variants of the program live in the repository:                     *)
(*   - the SearchResult variant (src/unnamed/part_000), whose tests are    *)
(*     src/go/nexus/main.go lines 361-591;                                 *)
(*   - the map-based variant (src/go/nexus/main.go lines 1-359), whose     *)
(*     definitions carry the suffix Map here.                              *)
(*                                                                         *)
(* Strings are Go strings: a string of the model stands for the byte       *)
(* sequence Bytes gives it, and strconv.Atoi, the > of strings and the     *)
(* "%s:%s" formatting are computed on those bytes.                         *)
(***************************************************************************)
EXTENDS Integers, Sequences, FiniteSets, TLC

(***************************************************************************)
(* Bounds of the model.                                                    *)
(***************************************************************************)
\* longest tag list handed to filterTags directly
MaxTags == 4
\* longest record sequence handed to processImages directly
MaxImages == 3
\* longest pattern list handed to SearchImages
MaxPatterns == 2
\* most entries on one page of a response
MaxItems == 1
\* most requests of one call that the request counter tells apart
MaxRequests == 3

(***************************************************************************)
(* Go strings.                                                             *)
(***************************************************************************)
\* the bytes of every string the model uses
Bytes(s) ==
  CASE s = ""       -> <<>>
    [] s = "latest" -> <<108, 97, 116, 101, 115, 116>>
    [] s = "1"      -> <<49>>
    [] s = "2"      -> <<50>>
    [] s = "10"     -> <<49, 48>>
    [] s = "010"    -> <<48, 49, 48>>
    [] s = "0"      -> <<48>>
    [] s = "-1"     -> <<45, 49>>
    [] s = "v1"     -> <<118, 49>>
    [] s = "1x"     -> <<49, 120>>
    [] s = "rc"     -> <<114, 99>>
    [] s = "b:1"    -> <<98, 58, 49>>
    [] s = "a"      -> <<97>>
    [] s = "a:b"    -> <<97, 58, 98>>
    [] s = "img"    -> <<105, 109, 103>>
    [] s = "app"    -> <<97, 112, 112>>

\* strconv.Atoi, fast path (every string of the model is shorter than 19
\* bytes): an optional sign, then one or more decimal digits
AtoiDigits(s) ==
  LET b == Bytes(s)
  IN IF Len(b) > 0 /\ (b[1] = 45 \/ b[1] = 43) THEN Tail(b) ELSE b

\* err != nil of strconv.Atoi
AtoiErr(s) ==
  LET d == AtoiDigits(s)
  IN \/ Len(Bytes(s)) = 0
     \/ Len(d) < 1
     \/ \E i \in 1..Len(d) : d[i] < 48 \/ d[i] > 57

RECURSIVE AtoiAcc(_, _)
AtoiAcc(d, n) ==
  IF d = <<>> THEN n ELSE AtoiAcc(Tail(d), n * 10 + (Head(d) - 48))

\* the int strconv.Atoi returns (0 with an error)
AtoiNum(s) ==
  IF AtoiErr(s) THEN 0
  ELSE IF Bytes(s)[1] = 45 THEN 0 - AtoiAcc(AtoiDigits(s), 0)
       ELSE AtoiAcc(AtoiDigits(s), 0)

RECURSIVE BytesGreater(_, _)
BytesGreater(x, y) ==
  IF x = <<>> THEN FALSE
  ELSE IF y = <<>> THEN TRUE
  ELSE IF x[1] # y[1] THEN x[1] > y[1]
  ELSE BytesGreater(Tail(x), Tail(y))

\* a > b on Go strings: byte-wise lexicographic
StrGreater(a, b) == BytesGreater(Bytes(a), Bytes(b))

(***************************************************************************)
(* sort.Slice.  For a slice of at most 12 elements it is an insertion sort *)
(* (sort.insertionSortLessFunc; before Go 1.19 a gap-6 shell pass comes    *)
(* first, which does nothing on fewer than 7 elements).                    *)
(***************************************************************************)
Swap(s, i, j) == [s EXCEPT ![i] = s[j], ![j] = s[i]]

\* the inner loop: for j := i; j > a && less(j, j-1); j-- { swap(j, j-1) }
\* (less is the comparison, tabulated over the elements of the slice)
RECURSIVE SinkDown(_, _, _)
SinkDown(s, j, less) ==
  IF j > 1 /\ less[<<s[j], s[j - 1]>>]
  THEN SinkDown(Swap(s, j, j - 1), j - 1, less)
  ELSE s

RECURSIVE InsertionSortFrom(_, _, _)
InsertionSortFrom(s, i, less) ==
  IF i > Len(s) THEN s
  ELSE InsertionSortFrom(SinkDown(s, i, less), i + 1, less)

sortSlice(s, less) == InsertionSortFrom(s, 2, less)

Elems(s) == {s[i] : i \in DOMAIN s}

(***************************************************************************)
(* Tag filter, SearchResult variant (src/unnamed/part_000).                *)
(***************************************************************************)
\* lessTags comparing numbers only: false when a tag does not parse
lessTagsNumbersOnly(a, b) ==
  IF AtoiErr(a) \/ AtoiErr(b) THEN FALSE ELSE AtoiNum(a) > AtoiNum(b)

\* lessTags comparing as strings only
lessTagsAsStrings(a, b) == StrGreater(a, b)

\* the comparison handed to sort.Slice
lessTags(a, b) ==
  IF ~AtoiErr(a) /\ ~AtoiErr(b)
  THEN AtoiNum(a) > AtoiNum(b)
  ELSE StrGreater(a, b)

\* the tags other than "latest", in input order
versionTagsOf(tags) == SelectSeq(tags, LAMBDA t : t # "latest")

hasLatest(tags) == \E i \in DOMAIN tags : tags[i] = "latest"

\* sortVersionTags leaving the tags as they come
sortVersionTagsUnsorted(versionTags) == versionTags

sortVersionTags(versionTags) ==
  sortSlice(versionTags,
            [p \in Elems(versionTags) \X Elems(versionTags) |-> lessTags(p[1], p[2])])

\* truncateTags cutting at 3 for 2
truncateTagsAtThree(versionTags) ==
  IF Len(versionTags) > 3 THEN SubSeq(versionTags, 1, 3) ELSE versionTags

truncateTags(versionTags) ==
  IF Len(versionTags) > 2 THEN SubSeq(versionTags, 1, 2) ELSE versionTags

latestMatches(tags, latestDigest, versionDigest) ==
  /\ hasLatest(tags)
  /\ latestDigest # ""
  /\ versionDigest # ""
  /\ latestDigest = versionDigest

\* withLatest appending where the code prepends
withLatestLast(versionTags) == versionTags \o <<"latest">>

withLatest(versionTags) == <<"latest">> \o versionTags

filterTags(tags, latestDigest, versionDigest) ==
  IF Len(tags) = 0 THEN tags
  ELSE LET versionTags == truncateTags(sortVersionTags(versionTagsOf(tags)))
       IN IF latestMatches(tags, latestDigest, versionDigest)
          THEN withLatest(versionTags)
          ELSE versionTags

\* imageGroups[name]: the records of one name, in input order
imageGroup(images, name) == SelectSeq(images, LAMBDA img : img.name = name)

imageNames(images) == {images[i].name : i \in DOMAIN images}

\* the locals of processImages before the loop over one group
scanInit == [latestDigest |-> "", versionDigest |-> "", highestVersion |-> -1]

\* scanStep ignoring the error of strconv.Atoi: a tag that does not parse
\* counts as the number 0 that Atoi returns with the error
scanStepIgnoresErr(acc, ver) ==
  IF ver.version = "latest"
  THEN [acc EXCEPT !.latestDigest = ver.sha256]
  ELSE IF AtoiNum(ver.version) > acc.highestVersion
       THEN [acc EXCEPT !.highestVersion = AtoiNum(ver.version),
                        !.versionDigest = ver.sha256]
       ELSE acc

\* scanStep with >= for >: among equal versions the last one wins
scanStepLastWins(acc, ver) ==
  IF ver.version = "latest"
  THEN [acc EXCEPT !.latestDigest = ver.sha256]
  ELSE IF ~AtoiErr(ver.version) /\ AtoiNum(ver.version) >= acc.highestVersion
       THEN [acc EXCEPT !.highestVersion = AtoiNum(ver.version),
                        !.versionDigest = ver.sha256]
       ELSE acc

\* one iteration of the loop over the versions of a group
scanStep(acc, ver) ==
  IF ver.version = "latest"
  THEN [acc EXCEPT !.latestDigest = ver.sha256]
  ELSE IF ~AtoiErr(ver.version) /\ AtoiNum(ver.version) > acc.highestVersion
       THEN [acc EXCEPT !.highestVersion = AtoiNum(ver.version),
                        !.versionDigest = ver.sha256]
       ELSE acc

RECURSIVE scanVersions(_, _)
scanVersions(versions, acc) ==
  IF versions = <<>> THEN acc
  ELSE scanVersions(Tail(versions), scanStep(acc, Head(versions)))

tagsOf(versions) == [i \in 1..Len(versions) |-> versions[i].version]

processGroup(versions) ==
  LET d == scanVersions(versions, scanInit)
  IN filterTags(tagsOf(versions), d.latestDigest, d.versionDigest)

\* processImages leaving out the names whose filtered list is empty
processImagesOmitEmpty(images) ==
  [name \in {n \in imageNames(images) : Len(processGroup(imageGroup(images, n))) > 0}
     |-> processGroup(imageGroup(images, name))]

processImages(images) ==
  [name \in imageNames(images) |-> processGroup(imageGroup(images, name))]

(***************************************************************************)
(* Tag filter, map-based variant (src/go/nexus/main.go lines 1-359).       *)
(***************************************************************************)
lessTagsMap(a, b) ==
  IF AtoiErr(a) \/ AtoiErr(b) THEN FALSE ELSE AtoiNum(a) > AtoiNum(b)

sortVersionTagsMap(versionTags) ==
  sortSlice(versionTags,
            [p \in Elems(versionTags) \X Elems(versionTags) |-> lessTagsMap(p[1], p[2])])

\* the loop over tags that returns at the first "latest" whose digest matches
latestMatchesMap(tags, latestDigest, versionDigest) ==
  \E i \in DOMAIN tags :
    /\ tags[i] = "latest" /\ latestDigest # "" /\ versionDigest # ""
    /\ latestDigest = versionDigest

filterTagsMap(tags, latestDigest, versionDigest) ==
  IF Len(tags) = 0 THEN <<>>
  ELSE LET versionTags == truncateTags(sortVersionTagsMap(versionTagsOf(tags)))
       IN IF latestMatchesMap(tags, latestDigest, versionDigest)
          THEN <<"latest">> \o versionTags
          ELSE versionTags

\* var highestVersion int: the zero value
scanInitMap == [latestDigest |-> "", versionDigest |-> "", highestVersion |-> 0]

RECURSIVE scanVersionsMap(_, _)
scanVersionsMap(versions, acc) ==
  IF versions = <<>> THEN acc
  ELSE scanVersionsMap(Tail(versions), scanStep(acc, Head(versions)))

processGroupMap(versions) ==
  LET d == scanVersionsMap(versions, scanInitMap)
  IN filterTagsMap(tagsOf(versions), d.latestDigest, d.versionDigest)

\* a name is entered only when its filtered list is not empty
processImagesMap(images) ==
  [name \in {n \in imageNames(images) :
               Len(processGroupMap(imageGroup(images, n))) > 0}
     |-> processGroupMap(imageGroup(images, name))]

(***************************************************************************)
(* Search aggregator, SearchResult variant (src/unnamed/part_000).         *)
(***************************************************************************)
\* fmt.Sprintf("%s:%s", component.Name, component.Version), as bytes
imageKey(name, version) == Bytes(name) \o <<58>> \o Bytes(version)

\* firstAssetDigest taking the last asset
lastAssetDigest(component) ==
  IF Len(component.assets) > 0
  THEN component.assets[Len(component.assets)]
  ELSE ""

\* the digest of the first asset, "" without assets
firstAssetDigest(component) ==
  IF Len(component.assets) > 0 THEN component.assets[1] ELSE ""

toSearchResult(component) ==
  [name |-> component.name, version |-> component.version,
   sha256 |-> firstAssetDigest(component)]

\* addComponent without the check of seenImages
addComponentNoDedup(acc, component) ==
  [matchingImages |-> Append(acc.matchingImages, toSearchResult(component)),
   seenImages |-> acc.seenImages
                    \cup {imageKey(component.name, component.version)}]

\* addComponent putting the new record in front
addComponentInFront(acc, component) ==
  IF imageKey(component.name, component.version) \in acc.seenImages
  THEN acc
  ELSE [matchingImages |-> <<toSearchResult(component)>> \o acc.matchingImages,
        seenImages |-> acc.seenImages
                         \cup {imageKey(component.name, component.version)}]

\* one iteration of the loop over data.Items; acc holds matchingImages and
\* seenImages
addComponent(acc, component) ==
  IF imageKey(component.name, component.version) \in acc.seenImages
  THEN acc
  ELSE [matchingImages |-> Append(acc.matchingImages, toSearchResult(component)),
        seenImages |-> acc.seenImages
                         \cup {imageKey(component.name, component.version)}]

RECURSIVE addItems(_, _)
addItems(acc, items) ==
  IF items = <<>> THEN acc
  ELSE addItems(addComponent(acc, Head(items)), Tail(items))

\* morePages never going on to another page
morePagesNever(token) == FALSE

\* the test that ends the pagination loop, negated:
\* if data.ContinuationToken == "" { break }
morePages(token) == token # ""

\* url.Values of a pattern before its first request
newParams(pattern) == [name |-> pattern, continuationToken |-> ""]

\* paramsSent never setting the token
paramsSentNoToken(p, token) == p

\* params.Set("continuationToken", ...) happens only for a non-empty token
paramsSent(p, token) ==
  IF token # "" THEN [p EXCEPT !.continuationToken = token] ELSE p

\* what SearchImages returns
searchOk(found) == [images |-> found, isNil |-> found = <<>>, err |-> ""]
searchErr(e) == [images |-> <<>>, isNil |-> TRUE, err |-> e]

\* SearchAndFilterImages returning a nil mapping when nothing was found
SearchAndFilterImagesNilOnEmpty(r) ==
  IF r.err # "" THEN [map |-> <<>>, isNil |-> TRUE, err |-> r.err]
  ELSE IF Len(r.images) = 0 THEN [map |-> <<>>, isNil |-> TRUE, err |-> ""]
  ELSE [map |-> processImages(r.images), isNil |-> FALSE, err |-> ""]

\* what SearchAndFilterImages returns for a return value of SearchImages
SearchAndFilterImages(r) ==
  IF r.err # "" THEN [map |-> <<>>, isNil |-> TRUE, err |-> r.err]
  ELSE IF Len(r.images) = 0 THEN [map |-> <<>>, isNil |-> FALSE, err |-> ""]
  ELSE [map |-> processImages(r.images), isNil |-> FALSE, err |-> ""]

(***************************************************************************)
(* The inputs the model draws.                                             *)
(***************************************************************************)
RECURSIVE SeqsUpTo(_, _)
SeqsUpTo(S, n) ==
  IF n = 0 THEN {<<>>}
  ELSE LET shorter == SeqsUpTo(S, n - 1)
       IN shorter \cup {Append(s, x) : s \in {q \in shorter : Len(q) = n - 1}, x \in S}

Digests == {"", "D1", "D2"}

\* tags handed to filterTags
TagSet == {"latest", "1", "2", "10", "010", "v1", "1x", "rc"}

Rec(n, v, d) == [name |-> n, version |-> v, sha256 |-> d]

\* records handed to processImages
RecordSet ==
  { Rec("img", "latest", ""), Rec("img", "latest", "D1"), Rec("img", "latest", "D2"),
    Rec("img", "1", "D1"), Rec("img", "1", "D2"),
    Rec("img", "2", ""), Rec("img", "2", "D1"), Rec("img", "2", "D2"),
    Rec("img", "10", "D1"), Rec("img", "10", "D2"),
    Rec("img", "010", "D1"), Rec("img", "010", "D2"),
    Rec("img", "0", ""), Rec("img", "0", "D1"),
    Rec("img", "-1", "D1"), Rec("img", "-1", "D2"),
    Rec("img", "v1", "D1"), Rec("img", "v1", "D2"),
    Rec("img", "1x", "D1"),
    Rec("app", "latest", "D1"), Rec("app", "1", "D1") }

Comp(n, v, a) == [name |-> n, version |-> v, assets |-> a]

\* entries the search endpoint reports
ComponentSet ==
  { Comp("a:b", "1", <<"D2", "D1">>),
    Comp("a:b", "1", <<>>),
    Comp("a", "b:1", <<"D1">>),
    Comp("a:b", "latest", <<"D2">>),
    Comp("a", "1", <<"D1">>) }

PatternSet == {"a*", "a:*"}

\* pattern lists handed to SearchImages: the two patterns in turn (a pattern
\* is only passed on as the name parameter, and the answers of the endpoint
\* are drawn whatever the pattern is)
PatternLists ==
  {ps \in SeqsUpTo(PatternSet, MaxPatterns) :
     \A i \in DOMAIN ps : ps[i] = (IF i % 2 = 1 THEN "a*" ELSE "a:*")}

TokenSet == {"", "t1", "t2"}

\* the ways makeRequest fails: transport, status, body
FailureSet == {"request failed", "HTTP error", "failed to decode response"}

(***************************************************************************)
(* State.                                                                  *)
(***************************************************************************)
VARIABLES
  pc,                \* where the program is: "waiting" is inside makeRequest
  patterns,          \* argument of SearchImages
  pat,               \* index of the pattern of the outer loop
  params,            \* url.Values of the current pattern, as last sent
  continuationToken, \* local of the pagination loop
  matchingImages,    \* accumulated records
  seenImages,        \* keys seen so far
  ret,               \* return value of SearchImages
  nreq,              \* requests issued so far
  firstSeen,         \* history: the entries received whose (name, version)
                     \* pair had not been received before, in order
  conflict,          \* history: an entry repeated an earlier (name, version)
                     \* pair with other assets
  lastToken,         \* history: data.ContinuationToken of the last response
  images,            \* argument of processImages
  results,           \* return value of processImages / SearchAndFilterImages
  tagArgs,           \* arguments of filterTags
  tagsOut            \* return value of filterTags

vars == <<pc, patterns, pat, params, continuationToken, matchingImages,
          seenImages, ret, nreq, firstSeen, conflict, lastToken, images, results,
          tagArgs, tagsOut>>

searchVars == <<patterns, pat, params, continuationToken, matchingImages,
                seenImages, ret, nreq, firstSeen, conflict, lastToken>>

Init ==
  /\ pc = "idle"
  /\ patterns = <<>>
  /\ pat = 0
  /\ params = newParams("")
  /\ continuationToken = ""
  /\ matchingImages = <<>>
  /\ seenImages = {}
  /\ ret = searchOk(<<>>)
  /\ nreq = 0
  /\ firstSeen = <<>>
  /\ conflict = FALSE
  /\ lastToken = ""
  /\ images = <<>>
  /\ results = [map |-> <<>>, isNil |-> TRUE, err |-> ""]
  /\ tagArgs = [tags |-> <<>>, latestDigest |-> "", versionDigest |-> ""]
  /\ tagsOut = <<>>

(***************************************************************************)
(* SearchImages.                                                           *)
(***************************************************************************)
\* the request counter after one more request: it counts exactly up to
\* MaxRequests and stays at MaxRequests + 1 for every larger number (the
\* loops of SearchImages have no cap of their own)
countRequest(n) == IF n > MaxRequests THEN n ELSE n + 1

\* history: entries whose pair is new, appended in order of receipt
RECURSIVE noteFirstSeen(_, _)
noteFirstSeen(seen, items) ==
  IF items = <<>> THEN seen
  ELSE LET c == Head(items)
           known == \E i \in DOMAIN seen :
                      seen[i].name = c.name /\ seen[i].version = c.version
       IN noteFirstSeen(IF known THEN seen ELSE Append(seen, c), Tail(items))

\* history: some entry of the page repeats a pair received before it with
\* other assets
RECURSIVE noteConflict(_, _)
noteConflict(seen, items) ==
  IF items = <<>> THEN FALSE
  ELSE LET c == Head(items)
       IN \/ \E i \in DOMAIN seen :
               /\ seen[i].name = c.name /\ seen[i].version = c.version
               /\ seen[i].assets # c.assets
          \/ noteConflict(noteFirstSeen(seen, <<c>>), Tail(items))

\* SearchImages is entered: the locals are set up, and with a pattern to
\* search the first request is issued
SearchImagesCall ==
  /\ pc = "idle"
  /\ \E ps \in PatternLists :
       /\ patterns' = ps
       /\ IF ps = <<>>
          THEN /\ pc' = "returned"
               /\ ret' = searchOk(<<>>)
               /\ UNCHANGED <<pat, params, nreq>>
          ELSE /\ pc' = "waiting"
               /\ pat' = 1
               /\ params' = paramsSent(newParams(ps[1]), "")
               /\ nreq' = 1
               /\ UNCHANGED ret
  /\ continuationToken' = ""
  /\ matchingImages' = <<>>
  /\ seenImages' = {}
  /\ UNCHANGED <<firstSeen, conflict, lastToken, images, results, tagArgs,
                 tagsOut>>

\* FetchFails handing back the records collected so far with the error
FetchFailsKeepsRecords ==
  /\ pc = "waiting"
  /\ \E e \in FailureSet :
       ret' = [images |-> matchingImages, isNil |-> matchingImages = <<>>, err |-> e]
  /\ pc' = "failed"
  /\ UNCHANGED <<patterns, pat, params, continuationToken, matchingImages,
                 seenImages, nreq, firstSeen, conflict, lastToken, images,
                 results, tagArgs, tagsOut>>

\* makeRequest returns an error: SearchImages returns nil and the error
FetchFails ==
  /\ pc = "waiting"
  /\ \E e \in FailureSet : ret' = searchErr(e)
  /\ pc' = "failed"
  /\ UNCHANGED <<patterns, pat, params, continuationToken, matchingImages,
                 seenImages, nreq, firstSeen, conflict, lastToken, images,
                 results, tagArgs, tagsOut>>

\* makeRequest returns a page: its entries are added; with a token the next
\* page is requested, without one the next pattern's first page is, and after
\* the last pattern SearchImages returns
FetchPage ==
  /\ pc = "waiting"
  /\ \E items \in SeqsUpTo(ComponentSet, MaxItems), token \in TokenSet :
       LET acc == addItems([matchingImages |-> matchingImages,
                            seenImages |-> seenImages], items)
       IN /\ matchingImages' = acc.matchingImages
          /\ seenImages' = acc.seenImages
          /\ firstSeen' = noteFirstSeen(firstSeen, items)
          /\ conflict' = (conflict \/ noteConflict(firstSeen, items))
          /\ lastToken' = token
          /\ IF morePages(token)
             THEN /\ continuationToken' = token
                  /\ params' = paramsSent(params, token)
                  /\ nreq' = countRequest(nreq)
                  /\ UNCHANGED <<pc, pat, ret>>
             ELSE IF pat < Len(patterns)
             THEN /\ pat' = pat + 1
                  /\ continuationToken' = ""
                  /\ params' = paramsSent(newParams(patterns[pat + 1]), "")
                  /\ nreq' = countRequest(nreq)
                  /\ UNCHANGED <<pc, ret>>
             ELSE /\ pc' = "returned"
                  /\ ret' = searchOk(acc.matchingImages)
                  /\ UNCHANGED <<pat, params, continuationToken, nreq>>
  /\ UNCHANGED <<patterns, images, results, tagArgs, tagsOut>>

\* SearchAndFilterImages goes on after SearchImages has returned
SearchAndFilterReturn ==
  /\ pc \in {"returned", "failed"}
  /\ results' = SearchAndFilterImages(ret)
  /\ images' = IF ret.err = "" /\ Len(ret.images) > 0 THEN ret.images ELSE images
  /\ pc' = "done"
  /\ UNCHANGED <<searchVars, tagArgs, tagsOut>>

(***************************************************************************)
(* The tag filter called on its own, as the tests do.                      *)
(***************************************************************************)
ProcessImagesCall ==
  /\ pc = "idle"
  /\ \E imgs \in SeqsUpTo(RecordSet, MaxImages) :
       /\ images' = imgs
       /\ results' = [map |-> processImages(imgs), isNil |-> FALSE, err |-> ""]
  /\ pc' = "processed"
  /\ UNCHANGED <<searchVars, tagArgs, tagsOut>>

ProcessImagesMapCall ==
  /\ pc = "idle"
  /\ \E imgs \in SeqsUpTo(RecordSet, MaxImages) :
       /\ images' = imgs
       /\ results' = [map |-> processImagesMap(imgs), isNil |-> FALSE, err |-> ""]
  /\ pc' = "processedMap"
  /\ UNCHANGED <<searchVars, tagArgs, tagsOut>>

FilterTagsCall ==
  /\ pc = "idle"
  /\ \E tags \in SeqsUpTo(TagSet, MaxTags), ld \in Digests, vd \in Digests :
       /\ tagArgs' = [tags |-> tags, latestDigest |-> ld, versionDigest |-> vd]
       /\ tagsOut' = filterTags(tags, ld, vd)
  /\ pc' = "filtered"
  /\ UNCHANGED <<searchVars, images, results>>

FilterTagsMapCall ==
  /\ pc = "idle"
  /\ \E tags \in SeqsUpTo(TagSet, MaxTags), ld \in Digests, vd \in Digests :
       /\ tagArgs' = [tags |-> tags, latestDigest |-> ld, versionDigest |-> vd]
       /\ tagsOut' = filterTagsMap(tags, ld, vd)
  /\ pc' = "filteredMap"
  /\ UNCHANGED <<searchVars, images, results>>

(***************************************************************************)
(* Specifications.                                                         *)
(***************************************************************************)
NextSearch == SearchImagesCall \/ FetchFails \/ FetchPage \/ SearchAndFilterReturn

NextFilter == ProcessImagesCall

NextTags == FilterTagsCall

NextMap == ProcessImagesMapCall \/ FilterTagsMapCall

Next == NextSearch \/ NextFilter \/ NextTags \/ NextMap

\* every operation
Spec == Init /\ [][Next]_vars

\* the search aggregator and SearchAndFilterImages
SpecSearch == Init /\ [][NextSearch]_vars

\* processImages of the SearchResult variant on its own
SpecFilter == Init /\ [][NextFilter]_vars

\* filterTags of the SearchResult variant on its own
SpecTags == Init /\ [][NextTags]_vars

\* the tag filter of the map-based variant
SpecMap == Init /\ [][NextMap]_vars

\* the two tag filters and both ways of calling them
SpecFilters == Init /\ [][NextFilter \/ NextTags \/ NextMap]_vars

\* the tag filter of the SearchResult variant, both ways of calling it
SpecFilterTags == Init /\ [][NextFilter \/ NextTags]_vars

\* the search aggregator and processImages called on its own
SpecSearchFilter == Init /\ [][NextSearch \/ NextFilter]_vars

\* processImages of both variants
SpecProcessImages == Init /\ [][ProcessImagesCall \/ ProcessImagesMapCall]_vars

\* the search aggregator against an endpoint that answers every request:
\* makeRequest is a blocking call, and the code after it runs to the next
\* request or to the return
FairSearch ==
  /\ SpecSearch
  /\ WF_vars(FetchPage \/ FetchFails)
  /\ WF_vars(SearchAndFilterReturn)

(***************************************************************************)
(* Properties.                                                             *)
(***************************************************************************)
NamesIn(imgs) == {imgs[i].name : i \in DOMAIN imgs}

UniquePairs(imgs) ==
  \A i, j \in DOMAIN imgs :
    i # j => ~(imgs[i].name = imgs[j].name /\ imgs[i].version = imgs[j].version)

\* positions of the records of name n whose version parses as an integer >= 0
IntPositions(imgs, n) ==
  {i \in DOMAIN imgs : /\ imgs[i].name = n
                       /\ ~AtoiErr(imgs[i].version)
                       /\ AtoiNum(imgs[i].version) >= 0}

\* the position of the numerically largest of them, the first one where
\* several spellings have that value
TopPosition(imgs, n) ==
  CHOOSE i \in IntPositions(imgs, n) :
    \A j \in IntPositions(imgs, n) :
      \/ AtoiNum(imgs[j].version) < AtoiNum(imgs[i].version)
      \/ AtoiNum(imgs[j].version) = AtoiNum(imgs[i].version) /\ i <= j

LatestExpected(imgs, n) ==
  \E i \in DOMAIN imgs :
    /\ imgs[i].name = n
    /\ imgs[i].version = "latest"
    /\ imgs[i].sha256 # ""
    /\ IntPositions(imgs, n) # {}
    /\ imgs[i].sha256 = imgs[TopPosition(imgs, n)].sha256

\* C1: for records with unique (name, version) pairs, processImages of the
\* SearchResult variant puts "latest" in result[N] exactly when N has a
\* "latest" record whose digest is non-empty and equals the digest of N's
\* record with the numerically largest non-negative integer version
C1_LatestIffDigestOfHighest ==
  (pc = "processed" /\ UniquePairs(images)) =>
    /\ DOMAIN results.map = NamesIn(images)
    /\ \A n \in DOMAIN results.map :
         ("latest" \in Elems(results.map[n])) <=> LatestExpected(images, n)

C1_Witness ==
  /\ pc = "processed"
  /\ UniquePairs(images)
  /\ images = <<Rec("img", "010", "D2"), Rec("img", "latest", "D2"),
                Rec("img", "10", "D1")>>
  /\ results.map["img"][1] = "latest"

TagListOk(l) ==
  /\ Len(l) <= 3
  /\ Cardinality({i \in DOMAIN l : l[i] # "latest"}) <= 2
  /\ Cardinality({i \in DOMAIN l : l[i] = "latest"}) <= 1

\* C2: every tag list the filter returns, for any records (repeated records
\* and several "latest" records included), has at most 3 elements, at most 2
\* of them other than "latest" and at most 1 "latest"
C2_AtMostThreeTags ==
  /\ pc \in {"processed", "processedMap"} =>
       \A n \in DOMAIN results.map : TagListOk(results.map[n])
  /\ pc \in {"filtered", "filteredMap"} => TagListOk(tagsOut)

C2_Witness ==
  /\ pc = "processed"
  /\ \E i, j \in DOMAIN images :
       /\ i # j
       /\ images[i].name = "img" /\ images[j].name = "img"
       /\ images[i].version = "latest" /\ images[j].version = "latest"
  /\ Len(images) = 3
  /\ "img" \in DOMAIN results.map
  /\ results.map["img"] = <<"latest", "2">>

SamePair(x, y) == x.name = y.name /\ x.version = y.version

\* the digest an entry stands for: that of its first asset, "" without assets
DigestOfEntry(c) == IF c.assets = <<>> THEN "" ELSE c.assets[1]

\* C3: at every point of SearchImages the accumulated list holds no two
\* records with the same (name, version), and each record carries the digest
\* of the first entry received with its pair
C3_NoDuplicatePairs ==
  /\ UniquePairs(matchingImages)
  /\ \A i \in DOMAIN matchingImages :
       \E j \in DOMAIN firstSeen :
         /\ SamePair(firstSeen[j], matchingImages[i])
         /\ matchingImages[i].sha256 = DigestOfEntry(firstSeen[j])

C3_Witness ==
  /\ pc = "returned"
  /\ Len(patterns) = 2
  /\ conflict
  /\ matchingImages = <<Rec("a:b", "1", ""), Rec("a", "1", "D1")>>

\* position in the history of the first entry received with the pair of r
FirstReceipt(r) == CHOOSE k \in DOMAIN firstSeen : SamePair(firstSeen[k], r)

C5_FailureAbortsEverything ==
  /\ [](pc = "failed" => ret.isNil /\ ret.images = <<>> /\ ret.err \in FailureSet)
  /\ []((pc = "done" /\ ret.err # "") =>
          /\ results.isNil /\ results.map = <<>> /\ results.err = ret.err
          /\ images = <<>>)
  /\ [][(pc = "failed" \/ (pc = "done" /\ ret.err # "")) =>
          (nreq' = nreq /\ params' = params /\ ret' = ret)]_vars

C5_Witness ==
  /\ pc = "done"
  /\ ret.err = "HTTP error"
  /\ pat = 2
  /\ Len(matchingImages) = 2
  /\ results.isNil

WithoutLatest(l) == SelectSeq(l, LAMBDA x : x # "latest")

\* the tags other than "latest" all parse, and to pairwise different numbers
DistinctIntegers(tags) ==
  /\ \A i \in DOMAIN tags : tags[i] # "latest" => ~AtoiErr(tags[i])
  /\ \A i, j \in DOMAIN tags :
       (i # j /\ tags[i] # "latest" /\ tags[j] # "latest")
         => AtoiNum(tags[i]) # AtoiNum(tags[j])

\* C6: for version tags that are pairwise numerically distinct integers,
\* filterTags emits the two numerically largest (all of them if fewer than
\* three), largest first: <<"1", "2", "10">> gives <<"10", "2">>
C6_TwoLargestDescending ==
  (pc = "filtered" /\ DistinctIntegers(tagArgs.tags)) =>
    LET given == Elems(WithoutLatest(tagArgs.tags))
        out == WithoutLatest(tagsOut)
    IN /\ Len(out) = (IF Cardinality(given) < 3 THEN Cardinality(given) ELSE 2)
       /\ Elems(out) \subseteq given
       /\ Len(out) = 2 => AtoiNum(out[1]) > AtoiNum(out[2])
       /\ \A v \in given \ Elems(out) :
            \A k \in DOMAIN out : AtoiNum(v) < AtoiNum(out[k])
       /\ tagArgs.tags = <<"1", "2", "10">> => out = <<"10", "2">>

C6_Witness ==
  /\ pc = "filtered"
  /\ tagArgs.tags = <<"1", "2", "10">>
  /\ tagsOut = <<"10", "2">>

\* C7: an emitted "latest" is the first element and occurs once, and what
\* follows it is the list filterTags gives for the same tags with digests
\* that differ; (img,latest,D2),(img,1,D1),(img,2,D2) gives
\* <<"latest","2","1">>, and with another latest digest <<"2","1">>
C7_LatestFirstThenVersions ==
  /\ (pc = "filtered" /\ "latest" \in Elems(tagsOut)) =>
       /\ tagsOut[1] = "latest"
       /\ Cardinality({i \in DOMAIN tagsOut : tagsOut[i] = "latest"}) = 1
       /\ Tail(tagsOut) = filterTags(tagArgs.tags, "D1", "D2")
  /\ (pc = "processed"
        /\ images = <<Rec("img", "latest", "D2"), Rec("img", "1", "D1"),
                      Rec("img", "2", "D2")>>)
       => results.map = [n \in {"img"} |-> <<"latest", "2", "1">>]
  /\ (pc = "processed"
        /\ images = <<Rec("img", "latest", "D1"), Rec("img", "1", "D1"),
                      Rec("img", "2", "D2")>>)
       => results.map = [n \in {"img"} |-> <<"2", "1">>]

C7_Witness ==
  /\ pc = "filtered"
  /\ tagArgs.tags = <<"1", "latest", "10", "2">>
  /\ tagsOut = <<"latest", "10", "2">>

\* C8: processImages of the SearchResult variant returns one entry per
\* distinct name of the input, also for a name whose list is empty (a group
\* of "latest" records only); a name with one version tag and no "latest"
\* maps to the list of that tag
C8_OneEntryPerName ==
  (pc = "processed") =>
    /\ DOMAIN results.map = NamesIn(images)
    /\ \A n \in NamesIn(images) :
         /\ (\A i \in DOMAIN images :
               images[i].name = n => images[i].version = "latest")
              => results.map[n] = <<>>
         /\ \A i \in DOMAIN images :
              (/\ images[i].name = n
               /\ images[i].version # "latest"
               /\ \A j \in DOMAIN images : images[j].name = n => j = i)
                => results.map[n] = <<images[i].version>>

C8_Witness ==
  /\ pc = "processed"
  /\ images = <<Rec("img", "latest", "D1"), Rec("app", "1", "D1"),
                Rec("img", "latest", "D2")>>
  /\ results.map = [n \in {"img", "app"} |-> IF n = "img" THEN <<>> ELSE <<"1">>]

\* C9: processImages of no records is the empty mapping, and
\* SearchAndFilterImages returns the empty mapping and no error when every
\* page of every pattern came back without entries
C9_EmptyInEmptyOut ==
  /\ (pc = "processed" /\ images = <<>>) => results.map = <<>>
  /\ (pc = "done" /\ ret.err = "" /\ firstSeen = <<>>) =>
       results = [map |-> <<>>, isNil |-> FALSE, err |-> ""]

C9_Witness ==
  /\ pc = "done"
  /\ ret.err = ""
  /\ firstSeen = <<>>
  /\ Len(patterns) = 2
  /\ nreq = 2
  /\ results.map = <<>>

\* the seen-set key of an entry, as bytes
KeyOfEntry(c) == Bytes(c.name) \o <<58>> \o Bytes(c.version)

\* C10: an entry without assets gives a record with its name, its version
\* and the empty digest, an entry with assets gives the digest of its first
\* asset, and neither stops the aggregation: every later entry with a new
\* key is recorded and SearchImages returns without an error
C10_NoAssetsIsNoFailure ==
  /\ \A i \in DOMAIN matchingImages :
       \E j \in DOMAIN firstSeen :
         /\ SamePair(firstSeen[j], matchingImages[i])
         /\ matchingImages[i].sha256 =
              (IF Len(firstSeen[j].assets) = 0 THEN "" ELSE firstSeen[j].assets[1])
  /\ \A j \in DOMAIN firstSeen :
       \/ \E i \in DOMAIN matchingImages : SamePair(firstSeen[j], matchingImages[i])
       \/ \E k \in 1..(j - 1) : KeyOfEntry(firstSeen[k]) = KeyOfEntry(firstSeen[j])
  /\ pc = "returned" => (ret.err = "" /\ ret.images = matchingImages)

C10_Witness ==
  /\ pc = "returned"
  /\ nreq = 3
  /\ ret.err = ""
  /\ ret.images = <<Rec("a:b", "1", ""), Rec("a:b", "latest", "D2"),
                    Rec("a", "1", "D1")>>

\* a step in which SearchImages receives a page (the step is not a stuttering
\* one where these are used)
PageReceived == pc = "waiting" /\ pc' # "failed"

\* a step that ends with a request in flight
RequestIssued == pc' = "waiting"

\* C11: a page with a non-empty token is always followed by a request for
\* the same pattern, a page with an empty token never is (the next pattern
\* starts, or SearchImages returns with a record for every entry received);
\* and against an endpoint that answers, from some point on SearchImages
\* has stopped or every page it receives carries a token
C11_PagesUntilEmptyToken ==
  /\ [][PageReceived =>
          /\ lastToken' # "" =>
               /\ pc' = "waiting" /\ pat' = pat
               /\ params'.name = params.name
               /\ params'.continuationToken = lastToken'
          /\ lastToken' = "" =>
               IF pat < Len(patterns)
               THEN pc' = "waiting" /\ pat' = pat + 1
               ELSE pc' = "returned" /\ ret' = searchOk(matchingImages')]_vars
  /\ [](pc = "returned" =>
          /\ ret.err = ""
          /\ \A j \in DOMAIN firstSeen :
               \E i \in DOMAIN ret.images :
                 KeyOfEntry(firstSeen[j]) = KeyOfEntry(ret.images[i]))
  /\ <>[](pc # "waiting" \/ lastToken # "")

C11_Witness ==
  /\ pc = "returned"
  /\ Len(patterns) = 2
  /\ nreq = 3
  /\ continuationToken = "t2"
  /\ Len(ret.images) = 3

\* C12: the first request of a pattern carries the pattern and no token and
\* is issued only after a page without token of the pattern before it; every
\* other request carries the token of the response just received, for the
\* same pattern
C12_RequestsInSequence ==
  [][RequestIssued =>
       /\ pat' \in {pat, pat + 1}
       /\ pat' # pat =>
            /\ params' = [name |-> patterns'[pat'], continuationToken |-> ""]
            /\ pc = "waiting" => lastToken' = ""
       /\ pat' = pat =>
            /\ pc = "waiting"
            /\ lastToken' # ""
            /\ params' = [name |-> patterns[pat], continuationToken |-> lastToken']]_vars

C12_Witness ==
  /\ pc = "waiting"
  /\ pat = 2
  /\ nreq = 3
  /\ lastToken = ""
  /\ params = [name |-> patterns[2], continuationToken |-> ""]
  /\ Len(matchingImages) = 2

\* C13: whatever the endpoint answers, SearchImages stops asking and returns
\* a record list or an error
C13_PaginationTerminates == (pc = "waiting") ~> (pc # "waiting")

\* position t is the first of several records of name n whose version has
\* the largest numeric value
FirstOfTiedTop(imgs, n, t) ==
  /\ t \in IntPositions(imgs, n)
  /\ \A j \in IntPositions(imgs, n) :
       \/ AtoiNum(imgs[j].version) < AtoiNum(imgs[t].version)
       \/ AtoiNum(imgs[j].version) = AtoiNum(imgs[t].version) /\ t <= j
  /\ \E j \in IntPositions(imgs, n) :
       j > t /\ AtoiNum(imgs[j].version) = AtoiNum(imgs[t].version)

\* the digest of the last "latest" record of name n, "" without one
LastLatestDigest(imgs, n) ==
  LET at == {i \in DOMAIN imgs : imgs[i].name = n /\ imgs[i].version = "latest"}
  IN IF at = {} THEN ""
     ELSE imgs[CHOOSE i \in at : \A j \in at : j <= i].sha256

HasNonInteger(imgs, n) ==
  \E i \in DOMAIN imgs :
    imgs[i].name = n /\ imgs[i].version # "latest" /\ AtoiErr(imgs[i].version)

\* positions of the records of name n with a version other than "latest"
VersionPositions(imgs, n) ==
  {k \in DOMAIN imgs : imgs[k].name = n /\ imgs[k].version # "latest"}

\* their versions
VersionsOf(imgs, n) == {imgs[i].version : i \in VersionPositions(imgs, n)}

\* C15: in a group that holds a version tag that does not parse as an
\* integer, versionDigest is still the digest of the first record with the
\* largest non-negative integer version, and empty without such a record
\* (then "latest" is not emitted); the tag is sorted with the others, so with
\* at most two version records in the group it is emitted; (img,"latest",D1),
\* (img,"v1",D1) gives <<"v1">>
C15_NonIntegerNeverSetsDigest ==
  pc = "processed" =>
    /\ \A n \in NamesIn(images) :
         HasNonInteger(images, n) =>
           \A vd \in {scanVersions(imageGroup(images, n), scanInit).versionDigest} :
             /\ IF IntPositions(images, n) = {}
                THEN vd = "" /\ "latest" \notin Elems(results.map[n])
                ELSE vd = images[TopPosition(images, n)].sha256
             /\ Cardinality(VersionPositions(images, n)) <= 2 =>
                  Elems(WithoutLatest(results.map[n])) = VersionsOf(images, n)
    /\ images = <<Rec("img", "latest", "D1"), Rec("img", "v1", "D1")>> =>
         results.map = [n \in {"img"} |-> <<"v1">>]

C15_Witness ==
  /\ pc = "processed"
  /\ images = <<Rec("img", "latest", "D1"), Rec("img", "v1", "D1")>>
  /\ results.map = [n \in {"img"} |-> <<"v1">>]

\* the tags other than "latest" are pairwise distinct and none parses as an
\* integer
DistinctNonIntegers(tags) ==
  /\ \A i \in DOMAIN tags : tags[i] # "latest" => AtoiErr(tags[i])
  /\ \A i, j \in DOMAIN tags :
       (i # j /\ tags[i] # "latest") => tags[i] # tags[j]

\* C16: for version tags that are pairwise distinct and all non-integer,
\* filterTags of the SearchResult variant emits the two greatest in byte-wise
\* order, greatest first (all of them if fewer than three), whatever the
\* order they come in
C16_TwoGreatestStrings ==
  (pc = "filtered" /\ DistinctNonIntegers(tagArgs.tags)) =>
    LET given == Elems(WithoutLatest(tagArgs.tags))
        out == WithoutLatest(tagsOut)
    IN /\ Len(out) = (IF Cardinality(given) < 3 THEN Cardinality(given) ELSE 2)
       /\ Elems(out) \subseteq given
       /\ Len(out) = 2 => BytesGreater(Bytes(out[1]), Bytes(out[2]))
       /\ \A v \in given \ Elems(out) :
            \A k \in DOMAIN out : BytesGreater(Bytes(out[k]), Bytes(v))

C16_Witness ==
  /\ pc = "filtered"
  /\ tagArgs.tags = <<"1x", "rc", "v1">>
  /\ tagsOut = <<"v1", "rc">>

\* the rearrangements of a sequence
Rearrangements(q) ==
  {[i \in DOMAIN q |-> q[f[i]]] : f \in Permutations(DOMAIN q)}

PairwiseDistinct(q) == \A i, j \in DOMAIN q : i # j => q[i] # q[j]

\* C17: over the version tags of a group with pairwise distinct versions the
\* comparison of filterTags is irreflexive and transitive, and the emitted
\* list is the same for every order of the tags
C17_OneConsistentOrdering ==
  (pc = "filtered" /\ PairwiseDistinct(tagArgs.tags)) =>
    LET given == Elems(WithoutLatest(tagArgs.tags))
    IN /\ \A a \in given : ~lessTags(a, a)
       /\ \A a, b, c \in given :
            (lessTags(a, b) /\ lessTags(b, c)) => lessTags(a, c)
       /\ \A q \in Rearrangements(tagArgs.tags) :
            filterTags(q, tagArgs.latestDigest, tagArgs.versionDigest) = tagsOut

\* C18: processImages of the map-based variant takes versionDigest from the
\* record with the largest non-negative integer version of every group, "0"
\* included: (img,"latest",D1),(img,"0",D1) gives <<"latest","0">>
C18_ZeroVersionCounts ==
  pc = "processedMap" =>
    /\ \A n \in NamesIn(images) :
         IntPositions(images, n) # {} =>
           scanVersionsMap(imageGroup(images, n), scanInitMap).versionDigest
             = images[TopPosition(images, n)].sha256
    /\ images = <<Rec("img", "latest", "D1"), Rec("img", "0", "D1")>> =>
         results.map = [n \in {"img"} |-> <<"latest", "0">>]

\* C19: every entry received has its record in the accumulated list, unless
\* an earlier entry had the same name and the same version: entries that
\* differ in name or version never stand for each other
C19_OnlySamePairDropped ==
  \A j \in DOMAIN firstSeen :
    \E i \in DOMAIN matchingImages : SamePair(firstSeen[j], matchingImages[i])

\* C20 as claimed: whenever "latest" is emitted for a name, the element right
\* after it is the numerically highest integer version tag of the group
C20_HighestAfterLatest ==
  pc = "processed" =>
    \A n \in NamesIn(images) :
      "latest" \in Elems(results.map[n]) =>
        /\ Len(results.map[n]) >= 2
        /\ results.map[n][2] = images[TopPosition(images, n)].version

\* no version tag of name n that does not parse is greater, byte-wise, than
\* the version v
NoGreaterNonInteger(imgs, n, v) ==
  \A i \in DOMAIN imgs :
    (imgs[i].name = n /\ imgs[i].version # "latest" /\ AtoiErr(imgs[i].version))
      => ~StrGreater(imgs[i].version, v)

\* C20, amended: whenever "latest" is emitted for a name, the element right
\* after it is the numerically highest integer version tag of the group (the
\* first of them in group order where several have that value), provided no
\* non-integer version tag of the group is greater than it as a string
C20_HighestAfterLatestUnlessGreaterString ==
  pc = "processed" =>
    \A n \in NamesIn(images) :
      "latest" \in Elems(results.map[n]) =>
        \A t \in {TopPosition(images, n)} :
          NoGreaterNonInteger(images, n, images[t].version) =>
            /\ Len(results.map[n]) >= 2
            /\ results.map[n][2] = images[t].version

C20_Witness ==
  /\ pc = "processed"
  /\ images = <<Rec("img", "latest", "D1"), Rec("img", "1x", "D1"),
                Rec("img", "2", "D1")>>
  /\ results.map["img"] = <<"latest", "2", "1x">>

\* C21: in the mapping SearchAndFilterImages returns no tag occurs twice in
\* the list of any image, whatever the pages of the endpoint held, and the
\* records the filter was given are unique by (name, version)
C21_NoTagTwiceEndToEnd ==
  (pc = "done" /\ ret.err = "") =>
    /\ UniquePairs(ret.images)
    /\ \A n \in DOMAIN results.map : PairwiseDistinct(results.map[n])

C21_Witness ==
  /\ pc = "done"
  /\ ret.err = ""
  /\ conflict
  /\ "a:b" \in DOMAIN results.map
  /\ results.map["a:b"] = <<"latest", "1">>

====
